---- MODULE Spec2Model ----
(***************************************************************************)
(* Join resolution and pipeline compilation of the natural-language to     *)
(* MongoDB query compiler (src/src/services/query_compiler.py,             *)
(* src/mongo_query_compiler.py).                                           *)
(*                                                                         *)
(* Python strings are sequences of one-character strings, so that split,   *)
(* join, startswith and replace are computed character by character.       *)
(* None is the empty sequence for string-valued fields (the code only      *)
(* tests them for truthiness) and "None" for collection names.             *)
(***************************************************************************)
EXTENDS Integers, Sequences, FiniteSets, TLC

VARIABLES
    graph,           \* the schema graph answering the Cypher queries
    intent,          \* the Intent dict handed to compile_pipeline
    pc,              \* position inside compile_pipeline
    required_paths,  \* result of extract_potential_paths
    recipes,         \* fetch_join_recipes: the list before deduplication
    join_recipes,    \* fetch_join_recipes: the returned list
    pre_filters,     \* compile_pipeline: filters classified pre-lookup
    post_filters,    \* compile_pipeline: filters classified post-lookup
    pipeline,        \* the stage list under construction
    unwound,         \* compile_pipeline: paths already unwound
    k,               \* index of the next recipe of join_recipes_sorted
    error,           \* "" or the name of the exception that ended the call
    fails            \* which session.run of the call raises, 0 for none

vars == <<graph, intent, pc, required_paths, recipes, join_recipes,
          pre_filters, post_filters, pipeline, unwound, k, error, fails>>

-----------------------------------------------------------------------------
(* Bounds *)

MaxEdges == 3
MaxFilters == 2
MaxSelect == 1
MaxFails == 3
MaxSort == 2

-----------------------------------------------------------------------------
(* Python string primitives *)

None == <<>>
NoCollection == "None"
Dot == <<".">>

Truthy(s) == s # <<>>

\* a or b
Or(a, b) == IF Truthy(a) THEN a ELSE b

\* s.startswith(p)
StartsWith(s, p) == Len(p) <= Len(s) /\ SubSeq(s, 1, Len(p)) = p

\* index of the first occurrence of p in s, 0 when there is none (s.find(p) + 1)
Find(s, p) ==
    LET hits == { i \in 1..(Len(s) - Len(p) + 1) : SubSeq(s, i, i + Len(p) - 1) = p }
    IN  IF hits = {} THEN 0 ELSE CHOOSE i \in hits : \A j \in hits : i <= j

\* s.replace(old, new, 1)
ReplaceFirst(s, old, new) ==
    LET i == Find(s, old)
    IN  IF i = 0 THEN s
        ELSE SubSeq(s, 1, i - 1) \o new \o SubSeq(s, i + Len(old), Len(s))

\* s.split(".")
RECURSIVE Split(_)
Split(s) ==
    LET i == Find(s, Dot)
    IN  IF i = 0 THEN <<s>>
        ELSE <<SubSeq(s, 1, i - 1)>> \o Split(SubSeq(s, i + 1, Len(s)))

\* ".".join(parts)
RECURSIVE Join(_)
Join(parts) ==
    IF Len(parts) = 0 THEN <<>>
    ELSE IF Len(parts) = 1 THEN parts[1]
    ELSE parts[1] \o Dot \o Join(Tail(parts))

\* f"{a}.{b}"
Dotted(a, b) == a \o Dot \o b

\* d.get(key, default) and d.get(key)
Get(d, key, default) == IF key \in DOMAIN d THEN d[key] ELSE default

Range(s) == { s[i] : i \in DOMAIN s }

\* the entries of pool at the indices in sel, in the order of pool
RECURSIVE Pick(_, _, _)
Pick(pool, sel, i) ==
    IF i > Len(pool) THEN <<>>
    ELSE (IF i \in sel THEN <<pool[i]>> ELSE <<>>) \o Pick(pool, sel, i + 1)

\* the sub-lists of pool with at most n entries
SubLists(pool, n) ==
    { Pick(pool, sel, 1) : sel \in { x \in SUBSET (1..Len(pool)) : Cardinality(x) <= n } }

-----------------------------------------------------------------------------
(* Names of the schema and of the Intent paths *)

n_o == <<"o">>            \* alias order
n_c == <<"c">>            \* alias customer
n_p == <<"p">>            \* alias priorOrder, a second reference to orders
n_y == <<"y">>            \* alias payment (orders back to payments)
n_i == <<"i">>            \* embedded array items
n_d == <<"d">>            \* alias product, and an embedded array of that name
n_v == <<"v">>            \* alias vendor
n_t == <<"t">>            \* embedded array tags
n_s == <<"s">>            \* scalar field status
n_n == <<"n">>            \* scalar field name
n_dc == <<"d", "c">>      \* scalar field productCode
f_oI == <<"o", "I">>      \* orderId
f_cI == <<"c", "I">>      \* customerId
f_pI == <<"p", "I">>      \* priorOrderId
f_yI == <<"y", "I">>      \* paymentId
f_dI == <<"d", "I">>      \* productId
f_vI == <<"v", "I">>      \* vendorId
f_id == <<"_", "i", "d">> \* _id
n_b == <<"b">>            \* alias lastOrder (customers back to orders)
n_x == <<"x">>            \* alias referrer (customers to customers)
f_bI == <<"b", "I">>      \* lastOrderId
f_xI == <<"x", "I">>      \* referrerId

\* One relationship of the schema graph (scripts/load_neo4j.py): a REFERS_TO
\* edge between collections ("ref"), a REFERS_TO edge leaving an Embedded node
\* of collection src ("eref"), or an Embedded node without REFERS_TO ("bare").
Edge(type, src, path, dst, alias, lf) ==
    [type |-> type, src |-> src, path |-> path, dst |-> dst, alias |-> alias,
     localField |-> lf, foreignField |-> f_id]

SchemaPool == <<
    Edge("ref",  "payments", None, "orders",    n_o, f_oI),
    Edge("ref",  "orders",   None, "customers", n_c, f_cI),
    Edge("ref",  "payments", None, "orders",    n_p, f_pI),
    Edge("ref",  "orders",   None, "payments",  n_y, f_yI),
    Edge("eref", "payments", n_i,  "products",  n_d, f_dI),
    Edge("eref", "payments", n_i,  "vendors",   n_v, f_vI),
    Edge("eref", "orders",   n_i,  "products",  n_d, f_dI),
    Edge("eref", "payments", n_d,  "vendors",   n_i, f_vI),
    Edge("bare", "payments", n_t,  NoCollection, None, None) >>

\* the schema graphs: at most MaxEdges relationships of the pool
Graphs == SubLists(SchemaPool, MaxEdges)

-----------------------------------------------------------------------------
(* The answers of the schema graph *)

\* MATCH p=(root)-[:REFERS_TO*0..]->(c:Collection): the paths leaving node,
\* no relationship used twice, in depth-first order; each is a list of
\* indices into g
RECURSIVE PathsFrom(_, _, _, _)
PathsFrom(g, node, prefix, i) ==
    IF i > Len(g) THEN <<>>
    ELSE IF g[i].type = "ref" /\ g[i].src = node /\ i \notin Range(prefix)
         THEN <<Append(prefix, i)>>
              \o PathsFrom(g, g[i].dst, Append(prefix, i), 1)
              \o PathsFrom(g, node, prefix, i + 1)
         ELSE PathsFrom(g, node, prefix, i + 1)

\* UNWIND relationships(p) AS r RETURN src, dst, alias, localField, foreignField
RECURSIVE Flatten(_)
Flatten(ss) == IF ss = <<>> THEN <<>> ELSE Head(ss) \o Flatten(Tail(ss))

CollectionRecords(g, root) ==
    LET rows == Flatten(PathsFrom(g, root, <<>>, 1))
    IN  [j \in 1..Len(rows) |-> g[rows[j]]]

\* MATCH (c {name:$col})-[:EMBEDS]->(e)-[r:REFERS_TO]->(dst)
EmbeddedRecords(g, col) == SelectSeq(g, LAMBDA e : e.type = "eref" /\ e.src = col)

\* MATCH (c {name:$root})-[:EMBEDS]->(e) WHERE NOT (e)-[:REFERS_TO]->(:Collection)
EmbeddedRootRecords(g, root) == SelectSeq(g, LAMBDA e : e.type = "bare" /\ e.src = root)

-----------------------------------------------------------------------------
(* QueryCompiler.extract_potential_paths *)

\* mutant: the path of a descending sort entry left out
ItemPathDirected(section, item) ==
    IF section = "select" THEN item
    ELSE IF section = "sort" /\ Get(item, "dir", "asc") = "desc" THEN None
    ELSE Or(Get(item, "pathHint", None), Get(item, "field", None))

\* the path of one entry: select entries are strings, filter and sort entries
\* are dicts read with item.get("pathHint") or item.get("field")
ItemPath(section, item) ==
    IF section = "select" THEN item
    ELSE Or(Get(item, "pathHint", None), Get(item, "field", None))

\* mutant: the first segment and the first two segments only
PrefixesTwoSegments(path) ==
    IF ~Truthy(path) THEN {}
    ELSE LET parts == Split(path)
         IN  { Join(SubSeq(parts, 1, i)) : i \in 1..(IF Len(parts) < 2 THEN Len(parts) ELSE 2) }

\* ".".join(parts[:i]) for i in range(1, len(parts) + 1)
Prefixes(path) ==
    IF ~Truthy(path) THEN {}
    ELSE LET parts == Split(path)
         IN  { Join(SubSeq(parts, 1, i)) : i \in 1..Len(parts) }

extract_potential_paths(it) ==
    UNION { UNION { Prefixes(ItemPath(section, Get(it, section, <<>>)[j]))
                    : j \in DOMAIN Get(it, section, <<>>) }
            : section \in {"select", "filters", "sort"} }

-----------------------------------------------------------------------------
(* QueryCompiler.fetch_join_recipes *)

JoinRecipe(kind, src, alias, dst, lf, ff, ap) ==
    [kind |-> kind, src_collection |-> src, alias |-> alias,
     dst_collection |-> dst, local_field |-> lf, foreign_field |-> ff,
     target_path |-> None, lookup_local_field |-> None, array_path |-> ap]

\* one preliminary collection recipe per record of the first query
CollectionRecipes(records) ==
    [j \in 1..Len(records) |->
        JoinRecipe("collection", records[j].src, records[j].alias, records[j].dst,
                   records[j].localField, records[j].foreignField, None)]

\* next(...) over a list: the least of the indices that qualify, 0 for None
FirstIndex(hits) ==
    IF hits = {} THEN 0 ELSE CHOOSE j \in hits : \A h \in hits : j <= h

\* mutant: the parent is the last recipe that leads to the source collection
RECURSIVE resolve_paths_last(_, _, _, _)
resolve_paths_last(rs, i, root, active) ==
    IF Truthy(rs[i].target_path) THEN [ok |-> TRUE, rs |-> rs]
    ELSE IF rs[i].src_collection = root
    THEN [ok |-> TRUE,
          rs |-> [rs EXCEPT ![i].target_path = rs[i].alias,
                            ![i].lookup_local_field = rs[i].local_field]]
    ELSE LET hits == { j \in DOMAIN rs : rs[j].dst_collection = rs[i].src_collection }
             parent == IF hits = {} THEN 0
                       ELSE CHOOSE j \in hits : \A h \in hits : h <= j
         IN  IF parent = 0
             THEN [ok |-> TRUE,
                   rs |-> [rs EXCEPT ![i].target_path = rs[i].alias,
                                     ![i].lookup_local_field = rs[i].local_field]]
             ELSE IF parent \in active \cup {i}
             THEN [ok |-> FALSE, rs |-> rs]
             ELSE LET sub == resolve_paths_last(rs, parent, root, active \cup {i})
                  IN  IF ~sub.ok THEN sub
                      ELSE [ok |-> TRUE,
                            rs |-> [sub.rs EXCEPT
                                ![i].target_path =
                                    Dotted(sub.rs[parent].target_path, rs[i].alias),
                                ![i].lookup_local_field =
                                    Dotted(sub.rs[parent].target_path, rs[i].local_field)]]

\* resolve_paths(recipes[i]); active holds the recipes whose call is in
\* progress, and entering one of them again is Python's RecursionError
RECURSIVE resolve_paths(_, _, _, _)
resolve_paths(rs, i, root, active) ==
    IF Truthy(rs[i].target_path) THEN [ok |-> TRUE, rs |-> rs]
    ELSE IF rs[i].src_collection = root
    THEN [ok |-> TRUE,
          rs |-> [rs EXCEPT ![i].target_path = rs[i].alias,
                            ![i].lookup_local_field = rs[i].local_field]]
    ELSE LET parent == FirstIndex({ j \in DOMAIN rs :
                                        rs[j].dst_collection = rs[i].src_collection })
         IN  IF parent = 0
             THEN [ok |-> TRUE,
                   rs |-> [rs EXCEPT ![i].target_path = rs[i].alias,
                                     ![i].lookup_local_field = rs[i].local_field]]
             ELSE IF parent \in active \cup {i}
             THEN [ok |-> FALSE, rs |-> rs]
             ELSE LET sub == resolve_paths(rs, parent, root, active \cup {i})
                  IN  IF ~sub.ok THEN sub
                      ELSE [ok |-> TRUE,
                            rs |-> [sub.rs EXCEPT
                                ![i].target_path =
                                    Dotted(sub.rs[parent].target_path, rs[i].alias),
                                ![i].lookup_local_field =
                                    Dotted(sub.rs[parent].target_path, rs[i].local_field)]]

\* for jr in recipes: resolve_paths(jr)
RECURSIVE ResolveAll(_, _, _)
ResolveAll(rs, i, root) ==
    IF i > Len(rs) THEN [ok |-> TRUE, rs |-> rs]
    ELSE LET one == resolve_paths(rs, i, root, {})
         IN  IF ~one.ok THEN one ELSE ResolveAll(one.rs, i + 1, root)

\* the embedded recipes of one collection of collections_to_check
EmbeddedRecipesOf(g, col, rs) ==
    LET recs == EmbeddedRecords(g, col)
        parent == FirstIndex({ j \in DOMAIN rs : /\ rs[j].dst_collection = col
                                                      /\ rs[j].kind = "collection" })
    IN  [j \in 1..Len(recs) |->
            JoinRecipe("embedded", col, recs[j].alias, recs[j].dst,
                       recs[j].localField, recs[j].foreignField,
                       IF parent # 0 THEN Dotted(rs[parent].target_path, recs[j].path)
                                     ELSE recs[j].path)]

\* for col in collections_to_check: ... recipes.append(jr)
RECURSIVE EmbeddedLoop(_, _, _, _)
EmbeddedLoop(g, cols, i, rs) ==
    IF i > Len(cols) THEN rs
    ELSE EmbeddedLoop(g, cols, i + 1, rs \o EmbeddedRecipesOf(g, cols[i], rs))

\* root-level embedded arrays without REFERS_TO
RootArrayRecipes(g, root) ==
    LET recs == EmbeddedRootRecords(g, root)
    IN  [j \in 1..Len(recs) |->
            JoinRecipe("embedded", root, recs[j].path, NoCollection, None, None,
                       recs[j].path)]

\* the list `recipes` when the session block is left
DiscoverRecipes(g, root) ==
    LET res == ResolveAll(CollectionRecipes(CollectionRecords(g, root)), 1, root)
        cols == <<root>> \o [j \in 1..Len(res.rs) |-> res.rs[j].dst_collection]
    IN  IF ~res.ok THEN res
        ELSE [ok |-> TRUE,
              rs |-> EmbeddedLoop(g, cols, 1, res.rs) \o RootArrayRecipes(g, root)]

\* mutant: an embedded recipe tested by its alias, whatever its array
PathToCheckAlias(r) ==
    IF r.kind = "collection" THEN r.target_path ELSE r.alias

\* path_to_check (line 165)
PathToCheck(r) ==
    IF r.kind = "collection" THEN r.target_path ELSE Or(r.array_path, r.alias)

DedupKey(r) == <<Or(r.target_path, r.alias), r.array_path>>

\* mutant: deduplication without the required-path test
RECURSIVE DeduplicateKeepAll(_, _, _, _)
DeduplicateKeepAll(rs, i, seen, required) ==
    IF i > Len(rs) THEN <<>>
    ELSE IF DedupKey(rs[i]) \notin seen
         THEN <<rs[i]>> \o DeduplicateKeepAll(rs, i + 1, seen \cup {DedupKey(rs[i])}, required)
         ELSE DeduplicateKeepAll(rs, i + 1, seen, required)

\* the "Deduplicate joins" loop
RECURSIVE Deduplicate(_, _, _, _)
Deduplicate(rs, i, seen, required) ==
    IF i > Len(rs) THEN <<>>
    ELSE IF Truthy(PathToCheck(rs[i])) /\ PathToCheck(rs[i]) \notin required
         THEN Deduplicate(rs, i + 1, seen, required)
         ELSE IF DedupKey(rs[i]) \notin seen
              THEN <<rs[i]>> \o Deduplicate(rs, i + 1, seen \cup {DedupKey(rs[i])}, required)
              ELSE Deduplicate(rs, i + 1, seen, required)

fetch_join_recipes(g, root, required) ==
    LET found == DiscoverRecipes(g, root)
    IN  IF ~found.ok THEN [ok |-> FALSE, recipes |-> found.rs, final |-> <<>>]
        ELSE [ok |-> TRUE, recipes |-> found.rs,
              final |-> Deduplicate(found.rs, 1, {}, required)]

\* the session.run calls of one fetch: the collection query, one embedded
\* query per entry of collections_to_check, the root-array query
QueriesIssued(g, root) == Len(CollectionRecords(g, root)) + 3

\* the list `recipes` at the moment the q-th session.run is called
GatheredBefore(g, root, q) ==
    IF q = 1 THEN <<>>
    ELSE LET res == ResolveAll(CollectionRecipes(CollectionRecords(g, root)), 1, root)
             cols == <<root>> \o [j \in 1..Len(res.rs) |-> res.rs[j].dst_collection]
         IN  EmbeddedLoop(g, SubSeq(cols, 1, q - 2), 1, res.rs)

Completed(whole) ==
    [ok |-> whole.ok, error |-> IF whole.ok THEN "" ELSE "RecursionError",
     recipes |-> whole.recipes, final |-> whole.final]

\* mutant: the failure logged and the recipes gathered so far kept, as the
\* try/except of the module-level fetch_join_recipes does
FetchSwallowing(g, root, required, q) ==
    LET whole == fetch_join_recipes(g, root, required)
    IN  IF q = 1 \/ (whole.ok /\ q \in 2..QueriesIssued(g, root))
        THEN [ok |-> TRUE, error |-> "", recipes |-> GatheredBefore(g, root, q),
              final |-> Deduplicate(GatheredBefore(g, root, q), 1, {}, required)]
        ELSE Completed(whole)

\* fetch_join_recipes when the q-th session.run raises (q = 0: none does):
\* nothing catches the exception, the with block closes the session and the
\* call ends; the first query precedes resolve_paths
Fetch(g, root, required, q) ==
    LET whole == fetch_join_recipes(g, root, required)
    IN  IF q = 1 \/ (whole.ok /\ q \in 2..QueriesIssued(g, root))
        THEN [ok |-> FALSE, error |-> "Neo4jError",
              recipes |-> GatheredBefore(g, root, q), final |-> <<>>]
        ELSE Completed(whole)

-----------------------------------------------------------------------------
(* Pipeline stages *)

MatchStage(m) == [stage |-> "$match", match |-> m]

\* mutant: the two join keys exchanged
LookupStageSwapped(from, lf, ff, as) ==
    [stage |-> "$lookup", from |-> from, localField |-> ff,
     foreignField |-> lf, as |-> as]

\* {"$lookup": {"from": ..., "localField": ..., "foreignField": ..., "as": ...}}
LookupStage(from, lf, ff, as) ==
    [stage |-> "$lookup", from |-> from, localField |-> lf,
     foreignField |-> ff, as |-> as]

\* {"$unwind": {"path": f"${path}", "preserveNullAndEmptyArrays": True}}
UnwindStage(path) ==
    [stage |-> "$unwind", path |-> <<"$">> \o path,
     preserveNullAndEmptyArrays |-> TRUE]

CountStage == [stage |-> "$count", count |-> "total"]

-----------------------------------------------------------------------------
(* QueryCompiler.compile_match *)

\* mutant: a key already present keeps its first value
DictSetKeepFirst(d, key, v) ==
    IF \E j \in DOMAIN d : d[j][1] = key THEN d ELSE Append(d, <<key, v>>)

\* d[key] = v on a dict kept as the list of its <<key, value>> items
DictSet(d, key, v) ==
    LET at == FirstIndex({ j \in DOMAIN d : d[j][1] = key })
    IN  IF at = 0 THEN Append(d, <<key, v>>) ELSE [d EXCEPT ![at] = <<key, v>>]

DictKeys(d) == { d[j][1] : j \in DOMAIN d }

DictGet(d, key) == d[FirstIndex({ j \in DOMAIN d : d[j][1] = key })][2]

\* {f"{r.array_path}.{r.alias}": r.alias for r in join_recipes if embedded}
RECURSIVE RewriteMap(_, _)
RewriteMap(rs, i) ==
    IF i = 0 THEN <<>>
    ELSE IF rs[i].kind = "embedded" /\ Truthy(rs[i].array_path)
         THEN DictSet(RewriteMap(rs, i - 1),
                      Dotted(rs[i].array_path, rs[i].alias), rs[i].alias)
         ELSE RewriteMap(rs, i - 1)

\* mutant: the path left as the Intent wrote it
RewritePathKept(path, rw) == path

\* the rewrite loop over rewrite_map.items(), left at the first hit
RewritePath(path, rw) ==
    LET hit == FirstIndex({ j \in DOMAIN rw : StartsWith(path, rw[j][1]) })
    IN  IF hit = 0 THEN path ELSE ReplaceFirst(path, rw[hit][1], rw[hit][2])

\* the condition stored under the path
Condition(op, val) ==
    IF op = "eq" THEN <<val>>
    ELSE IF op = "neq" THEN <<"$ne", val>>
    ELSE IF op = "gt" THEN <<"$gt", val>>
    ELSE IF op = "gte" THEN <<"$gte", val>>
    ELSE IF op = "lt" THEN <<"$lt", val>>
    ELSE IF op = "lte" THEN <<"$lte", val>>
    ELSE IF op = "in" THEN <<"$in", val>>
    ELSE <<val>>

\* f["pathHint"] and f["value"] raise KeyError on a filter without the key
RECURSIVE MatchLoop(_, _, _, _)
MatchLoop(filters, i, rw, match) ==
    IF i > Len(filters) THEN [ok |-> TRUE, match |-> match]
    ELSE IF "pathHint" \notin DOMAIN filters[i] \/ "value" \notin DOMAIN filters[i]
         THEN [ok |-> FALSE, match |-> match]
         ELSE MatchLoop(filters, i + 1, rw,
                  DictSet(match, RewritePath(filters[i].pathHint, rw),
                          Condition(Get(filters[i], "op", "eq"), filters[i].value)))

compile_match(filters, rs) == MatchLoop(filters, 1, RewriteMap(rs, Len(rs)), <<>>)

-----------------------------------------------------------------------------
(* QueryCompiler.compile_pipeline, step by step *)

\* mutant: the alias of every embedded recipe taken, with or without reference
LookupPathsOfAll(rs) ==
    { rs[j].target_path : j \in { h \in DOMAIN rs : rs[h].kind = "collection" } }
    \cup UNION { (IF Truthy(rs[j].array_path)
                  THEN {Dotted(rs[j].array_path, rs[j].alias)} ELSE {})
                 \cup {rs[j].alias}
                 : j \in { h \in DOMAIN rs : rs[h].kind = "embedded" } }

\* lookup_paths (lines 210-215)
LookupPaths(rs) ==
    { rs[j].target_path : j \in { h \in DOMAIN rs : rs[h].kind = "collection" } }
    \cup UNION { (IF Truthy(rs[j].array_path)
                  THEN {Dotted(rs[j].array_path, rs[j].alias)} ELSE {})
                 \cup {rs[j].alias}
                 : j \in { h \in DOMAIN rs : rs[h].kind = "embedded"
                                              /\ rs[h].dst_collection # NoCollection } }

\* mutant: the test turned around, path a dotted prefix of the lookup path
IsPostLookupPrefixOf(path, lps) ==
    \E lp \in lps : path = lp \/ StartsWith(lp, path \o Dot)

\* any(path == lp or path.startswith(lp + ".") for lp in lookup_paths)
IsPostLookup(path, lps) ==
    \E lp \in lps : path = lp \/ StartsWith(path, lp \o Dot)

\* mutant: collection recipes taken last to first
JoinRecipesSortedBackwards(rs) ==
    LET cs == SelectSeq(rs, LAMBDA r : r.kind = "collection")
    IN  [j \in 1..Len(cs) |-> cs[Len(cs) + 1 - j]]
        \o SelectSeq(rs, LAMBDA r : r.kind # "collection")

\* sorted(join_recipes, key=lambda r: r.kind != "collection"), a stable sort
JoinRecipesSorted(rs) ==
    SelectSeq(rs, LAMBDA r : r.kind = "collection")
    \o SelectSeq(rs, LAMBDA r : r.kind # "collection")

Raise(exc) ==
    /\ pc' = "raised"
    /\ error' = exc

\* mutant: the $match stage appended without the test of the filter list
MatchStagesAlways(filters, cm) == <<MatchStage(cm.match)>>

\* if filters: pipeline.append({"$match": compile_match(filters, join_recipes)})
MatchStages(filters, cm) ==
    IF filters = <<>> THEN <<>> ELSE <<MatchStage(cm.match)>>

\* mutant: the $count stage put in front
AggregateInFront(p, it) ==
    IF Get(it, "aggregation", "None") = "count" THEN <<CountStage>> \o p ELSE p

\* if intent.get("aggregation") == "count": pipeline.append({"$count": "total"})
Aggregate(p, it) ==
    IF Get(it, "aggregation", "None") = "count" THEN Append(p, CountStage) ELSE p

\* line 204
ExtractPaths ==
    /\ pc = "extract"
    /\ required_paths' = extract_potential_paths(intent)
    /\ pc' = "fetch"
    /\ UNCHANGED <<graph, intent, fails, recipes, join_recipes, pre_filters,
                   post_filters, pipeline, unwound, k, error>>

\* line 205
FetchJoinRecipes ==
    /\ pc = "fetch"
    /\ IF "root" \notin DOMAIN intent
       THEN /\ Raise("KeyError")
            /\ UNCHANGED <<recipes, join_recipes>>
       ELSE LET res == Fetch(graph, intent.root, required_paths, fails)
            IN  IF ~res.ok
                THEN /\ Raise(res.error)
                     /\ recipes' = res.recipes
                     /\ UNCHANGED join_recipes
                ELSE /\ recipes' = res.recipes
                     /\ join_recipes' = res.final
                     /\ pc' = "classify"
                     /\ UNCHANGED error
    /\ UNCHANGED <<graph, intent, fails, required_paths, pre_filters, post_filters,
                   pipeline, unwound, k>>

\* mutant: every filter held back until after the joins
ClassifyFiltersAllPost ==
    /\ pc = "classify"
    /\ LET fs == Get(intent, "filters", <<>>)
       IN  IF \E j \in DOMAIN fs : "pathHint" \notin DOMAIN fs[j]
           THEN /\ Raise("KeyError")
                /\ UNCHANGED <<pre_filters, post_filters>>
           ELSE /\ post_filters' = fs
                /\ pre_filters' = <<>>
                /\ pc' = "prematch"
                /\ UNCHANGED error
    /\ pipeline' = <<>>
    /\ unwound' = {}
    /\ UNCHANGED <<graph, intent, fails, required_paths, recipes, join_recipes, k>>

\* lines 207-224
ClassifyFilters ==
    /\ pc = "classify"
    /\ LET fs == Get(intent, "filters", <<>>)
           lps == LookupPaths(join_recipes)
       IN  IF \E j \in DOMAIN fs : "pathHint" \notin DOMAIN fs[j]
           THEN /\ Raise("KeyError")
                /\ UNCHANGED <<pre_filters, post_filters>>
           ELSE /\ post_filters' = SelectSeq(fs, LAMBDA f : IsPostLookup(f.pathHint, lps))
                /\ pre_filters' = SelectSeq(fs, LAMBDA f : ~IsPostLookup(f.pathHint, lps))
                /\ pc' = "prematch"
                /\ UNCHANGED error
    /\ pipeline' = <<>>
    /\ unwound' = {}
    /\ UNCHANGED <<graph, intent, fails, required_paths, recipes, join_recipes, k>>

\* lines 226-231
EmitPreMatch ==
    /\ pc = "prematch"
    /\ LET cm == compile_match(pre_filters, join_recipes)
       IN  IF pre_filters # <<>> /\ ~cm.ok
           THEN /\ Raise("KeyError")
                /\ UNCHANGED pipeline
           ELSE /\ pipeline' = pipeline \o MatchStages(pre_filters, cm)
                /\ pc' = "joins"
                /\ UNCHANGED error
    /\ k' = 1
    /\ UNCHANGED <<graph, intent, fails, required_paths, recipes, join_recipes,
                   pre_filters, post_filters, unwound>>

\* mutant: a collection recipe that adds no stage
CollectionStagesSkipped(r, done) == <<>>

\* the stages one collection recipe adds (lines 234-247)
CollectionStages(r, done) ==
    IF r.target_path \notin done
    THEN <<LookupStage(r.dst_collection, r.lookup_local_field, r.foreign_field,
                       r.target_path),
           UnwindStage(r.target_path)>>
    ELSE <<>>

\* mutant: the lookup of an embedded recipe without the unwind of its array
EmbeddedStagesArrayKept(r, done) ==
    IF r.dst_collection # NoCollection
    THEN <<LookupStage(r.dst_collection,
                       IF Truthy(r.array_path)
                       THEN Dotted(r.array_path, r.local_field)
                       ELSE r.local_field,
                       r.foreign_field, r.alias),
           UnwindStage(r.alias)>>
    ELSE <<>>

\* the stages one embedded recipe adds (lines 248-266)
EmbeddedStages(r, done) ==
    (IF Truthy(r.array_path) /\ r.array_path \notin done
     THEN <<UnwindStage(r.array_path)>> ELSE <<>>)
    \o (IF r.dst_collection # NoCollection
        THEN <<LookupStage(r.dst_collection,
                           IF Truthy(r.array_path)
                           THEN Dotted(r.array_path, r.local_field)
                           ELSE r.local_field,
                           r.foreign_field, r.alias),
               UnwindStage(r.alias)>>
        ELSE <<>>)

\* what the recipe adds to `unwound`
Unwinds(r) ==
    IF r.kind = "collection" THEN {r.target_path}
    ELSE IF Truthy(r.array_path) THEN {r.array_path} ELSE {}

\* the loop of lines 233-266 from recipe i on, p the stages so far
RECURSIVE JoinLoop(_, _, _, _)
JoinLoop(rs, i, p, done) ==
    IF i > Len(rs) THEN p
    ELSE JoinLoop(rs, i + 1,
                  p \o (IF rs[i].kind = "collection"
                        THEN CollectionStages(rs[i], done)
                        ELSE EmbeddedStages(rs[i], done)),
                  done \cup Unwinds(rs[i]))

\* compile_pipeline in one step, with a healthy driver: ok is FALSE where a
\* call raises
compile_pipeline(g, it) ==
    LET required == extract_potential_paths(it)
        fs == Get(it, "filters", <<>>)
    IN  IF "root" \notin DOMAIN it \/ ~Fetch(g, it.root, required, 0).ok
           \/ \E j \in DOMAIN fs : "pathHint" \notin DOMAIN fs[j]
        THEN [ok |-> FALSE, pipeline |-> <<>>]
        ELSE LET jr == Fetch(g, it.root, required, 0).final
                 lps == LookupPaths(jr)
                 post == SelectSeq(fs, LAMBDA f : IsPostLookup(f.pathHint, lps))
                 pre == SelectSeq(fs, LAMBDA f : ~IsPostLookup(f.pathHint, lps))
                 cmpre == compile_match(pre, jr)
                 cmpost == compile_match(post, jr)
             IN  IF (pre # <<>> /\ ~cmpre.ok) \/ (post # <<>> /\ ~cmpost.ok)
                 THEN [ok |-> FALSE, pipeline |-> <<>>]
                 ELSE [ok |-> TRUE,
                       pipeline |->
                           Aggregate(MatchStages(pre, cmpre)
                                     \o JoinLoop(JoinRecipesSorted(jr), 1, <<>>, {})
                                     \o MatchStages(post, cmpost), it)]

\* mutant: the recipes taken from the end of the sorted list
EmitJoinReversed ==
    /\ pc = "joins"
    /\ k <= Len(join_recipes)
    /\ LET r == JoinRecipesSorted(join_recipes)[Len(join_recipes) + 1 - k]
       IN  /\ pipeline' = pipeline \o (IF r.kind = "collection"
                                       THEN CollectionStages(r, unwound)
                                       ELSE EmbeddedStages(r, unwound))
           /\ unwound' = unwound \cup Unwinds(r)
    /\ k' = k + 1
    /\ UNCHANGED <<graph, intent, fails, pc, required_paths, recipes, join_recipes,
                   pre_filters, post_filters, error>>

\* one iteration of the loop of lines 233-266
EmitJoin ==
    /\ pc = "joins"
    /\ k <= Len(join_recipes)
    /\ LET r == JoinRecipesSorted(join_recipes)[k]
       IN  /\ pipeline' = pipeline \o (IF r.kind = "collection"
                                       THEN CollectionStages(r, unwound)
                                       ELSE EmbeddedStages(r, unwound))
           /\ unwound' = unwound \cup Unwinds(r)
    /\ k' = k + 1
    /\ UNCHANGED <<graph, intent, fails, pc, required_paths, recipes, join_recipes,
                   pre_filters, post_filters, error>>

\* lines 268-270, reached when the loop is exhausted
EmitPostMatch ==
    /\ pc = "joins"
    /\ k > Len(join_recipes)
    /\ LET cm == compile_match(post_filters, join_recipes)
       IN  IF post_filters # <<>> /\ ~cm.ok
           THEN /\ Raise("KeyError")
                /\ UNCHANGED pipeline
           ELSE /\ pipeline' = pipeline \o MatchStages(post_filters, cm)
                /\ pc' = "aggregate"
                /\ UNCHANGED error
    /\ UNCHANGED <<graph, intent, fails, required_paths, recipes, join_recipes,
                   pre_filters, post_filters, unwound, k>>

\* lines 272-277: the pipeline is returned
EmitAggregation ==
    /\ pc = "aggregate"
    /\ pipeline' = Aggregate(pipeline, intent)
    /\ pc' = "done"
    /\ UNCHANGED <<graph, intent, fails, required_paths, recipes, join_recipes,
                   pre_filters, post_filters, unwound, k, error>>

-----------------------------------------------------------------------------
(* The Intents *)

Path2(a, b) == Dotted(a, b)
Path3(a, b, c) == Dotted(Dotted(a, b), c)

\* the filters an Intent draws from: one without op (as in
\* test_mongo_compiler.py), one without pathHint and one without value
FilterPool == <<
    [pathHint |-> n_s, value |-> "v2"],
    [pathHint |-> Path3(n_o, n_c, n_n), op |-> "gt", value |-> "v1"],
    [pathHint |-> Path3(n_i, n_d, n_n), op |-> "eq", value |-> "v1"],
    [pathHint |-> Path2(n_d, n_n), op |-> "eq", value |-> "v2"],
    [pathHint |-> Path2(n_i, n_dc), op |-> "eq", value |-> "v1"],
    [op |-> "eq", value |-> "v1"],
    [pathHint |-> n_s, op |-> "eq"],
    [pathHint |-> Path2(n_t, n_n), op |-> "lt", value |-> "v1"] >>

SelectPool == << Path3(n_p, n_c, n_n), Path3(n_o, n_y, n_p) >>

\* the Intents with a root, and Intents without one
RootedIntents ==
    { [root |-> "payments", select |-> sel, filters |-> fs, sort |-> <<>>,
       limit |-> 50] @@ agg :
        sel \in SubLists(SelectPool, MaxSelect),
        fs \in SubLists(FilterPool, MaxFilters),
        agg \in {[aggregation |-> "count"], <<>>} }

RootlessIntents ==
    { [select |-> sel, filters |-> <<>>, sort |-> <<>>, limit |-> 50] :
        sel \in SubLists(SelectPool, MaxSelect) }

Intents == RootedIntents \cup RootlessIntents

Init ==
    /\ graph \in Graphs
    /\ intent \in Intents
    /\ pc = "extract"
    /\ required_paths = {}
    /\ recipes = <<>>
    /\ join_recipes = <<>>
    /\ pre_filters = <<>>
    /\ post_filters = <<>>
    /\ pipeline = <<>>
    /\ unwound = {}
    /\ k = 1
    /\ error = ""
    /\ fails = 0

Next ==
    \/ ExtractPaths
    \/ FetchJoinRecipes
    \/ ClassifyFilters
    \/ EmitPreMatch
    \/ EmitJoin
    \/ EmitPostMatch
    \/ EmitAggregation

Spec == Init /\ [][Next]_vars

-----------------------------------------------------------------------------
(* extract_potential_paths on its own *)

\* the select entries: a three-segment path, a one-segment path, an empty one
SelectEntryPool == << Path3(n_o, n_c, n_n), n_t, None >>

\* the filter and sort entries as item.get reads them: with pathHint, with an
\* empty pathHint, with neither key, with `field` alone, with an empty
\* pathHint and `field`, with both
EntryPool == <<
    [pathHint |-> Path3(n_i, n_d, n_n)],
    [pathHint |-> None],
    [value |-> "v1"],
    [field |-> Path2(n_p, n_c)],
    [pathHint |-> None, field |-> n_s],
    [pathHint |-> Path2(n_d, n_n), field |-> n_v] >>

ExtractIntents ==
    { [root |-> "payments", select |-> sel, filters |-> fs, sort |-> so,
       limit |-> 50] :
        sel \in SubLists(SelectEntryPool, MaxSelect),
        fs \in SubLists(EntryPool, MaxFilters),
        so \in SubLists(EntryPool, MaxFilters) }

InitExtract ==
    /\ graph = <<>>
    /\ intent \in ExtractIntents
    /\ pc = "extract"
    /\ required_paths = {}
    /\ recipes = <<>>
    /\ join_recipes = <<>>
    /\ pre_filters = <<>>
    /\ post_filters = <<>>
    /\ pipeline = <<>>
    /\ unwound = {}
    /\ k = 1
    /\ error = ""
    /\ fails = 0

NextExtract == ExtractPaths

SpecExtract == InitExtract /\ [][NextExtract]_vars

-----------------------------------------------------------------------------
(* fetch_join_recipes on schema graphs with reference cycles *)

\* references that close cycles through payments, through orders and
\* customers only, and on customers alone
CyclePool == <<
    Edge("ref", "payments",  None, "orders",    n_o, f_oI),
    Edge("ref", "orders",    None, "customers", n_c, f_cI),
    Edge("ref", "customers", None, "orders",    n_b, f_bI),
    Edge("ref", "orders",    None, "payments",  n_y, f_yI),
    Edge("ref", "customers", None, "customers", n_x, f_xI),
    Edge("ref", "payments",  None, "orders",    n_p, f_pI) >>

CycleIntents ==
    { [root |-> root, select |-> <<path>>, filters |-> <<>>, sort |-> <<>>,
       limit |-> 50] :
        root \in {"payments", "orders"},
        path \in { Path3(n_o, n_c, n_n), Path3(n_c, n_b, n_y) } }

InitCycle ==
    /\ graph \in SubLists(CyclePool, MaxEdges)
    /\ intent \in CycleIntents
    /\ pc = "extract"
    /\ required_paths = {}
    /\ recipes = <<>>
    /\ join_recipes = <<>>
    /\ pre_filters = <<>>
    /\ post_filters = <<>>
    /\ pipeline = <<>>
    /\ unwound = {}
    /\ k = 1
    /\ error = ""
    /\ fails = 0

NextCycle ==
    \/ ExtractPaths
    \/ FetchJoinRecipes

SpecCycle == InitCycle /\ [][NextCycle]_vars

-----------------------------------------------------------------------------
(* compile_pipeline on filters with every operator of the Intent model *)

\* Op of src/models/intent.py
Ops ==
    {"eq", "ne", "gt", "gte", "lt", "lte", "between", "in", "contains",
     "starts_with", "ends_with"}

OpGraphs ==
    SubLists(<< Edge("ref", "payments", None, "orders",    n_o, f_oI),
                Edge("ref", "orders",   None, "customers", n_c, f_cI) >>, MaxEdges)

\* one filter, on a local field or on a joined one
OpIntents ==
    LET Base(path, op, val) ==
            [root |-> "payments", select |-> <<>>,
             filters |-> << [pathHint |-> path, op |-> op, value |-> val] >>,
             sort |-> <<>>, limit |-> 50]
    IN  { Base(path, op, val) :
            path \in { <<"s">>, Path3(n_o, n_c, n_n) }, op \in Ops,
            val \in {"v1", "v2"} }
        \cup { [aggregation |-> "count"] @@ Base(path, op, val) :
                 path \in { <<"s">>, Path3(n_o, n_c, n_n) }, op \in Ops,
                 val \in {"v1", "v2"} }

InitOps ==
    /\ graph \in OpGraphs
    /\ intent \in OpIntents
    /\ pc = "extract"
    /\ required_paths = {}
    /\ recipes = <<>>
    /\ join_recipes = <<>>
    /\ pre_filters = <<>>
    /\ post_filters = <<>>
    /\ pipeline = <<>>
    /\ unwound = {}
    /\ k = 1
    /\ error = ""
    /\ fails = 0

SpecOps == InitOps /\ [][Next]_vars

-----------------------------------------------------------------------------
(* compile_pipeline on Intents with sort entries and limits *)

\* Sort of src/models/intent.py: a pathHint and a direction
SortPool == <<
    [pathHint |-> Path3(n_o, n_c, n_n), dir |-> "asc"],
    [pathHint |-> Path3(n_i, n_d, n_n), dir |-> "desc"],
    [pathHint |-> <<"s">>,              dir |-> "asc"],
    [pathHint |-> Path3(n_o, n_c, n_n), dir |-> "desc"] >>

Limits == {1, 50}

SortGraphs ==
    SubLists(<< Edge("ref",  "payments", None, "orders",    n_o, f_oI),
                Edge("ref",  "orders",   None, "customers", n_c, f_cI),
                Edge("eref", "payments", n_i,  "products",  n_d, f_dI) >>, MaxEdges)

SortIntents ==
    LET Base(fs, srt, lim) ==
            [root |-> "payments", select |-> <<>>, filters |-> fs,
             sort |-> srt, limit |-> lim]
        FilterLists ==
            { <<>>,
              << [pathHint |-> Path3(n_o, n_c, n_n), op |-> "gt", value |-> "v1"] >>,
              << [pathHint |-> <<"s">>, op |-> "eq", value |-> "v2"] >> }
    IN  { Base(fs, srt, lim) :
            fs \in FilterLists, srt \in SubLists(SortPool, MaxSort), lim \in Limits }
        \cup { [aggregation |-> "count"] @@ Base(fs, srt, lim) :
                 fs \in FilterLists, srt \in SubLists(SortPool, MaxSort),
                 lim \in Limits }

InitSort ==
    /\ graph \in SortGraphs
    /\ intent \in SortIntents
    /\ pc = "extract"
    /\ required_paths = {}
    /\ recipes = <<>>
    /\ join_recipes = <<>>
    /\ pre_filters = <<>>
    /\ post_filters = <<>>
    /\ pipeline = <<>>
    /\ unwound = {}
    /\ k = 1
    /\ error = ""
    /\ fails = 0

SpecSort == InitSort /\ [][Next]_vars

-----------------------------------------------------------------------------
(* compile_pipeline against a Schema Graph whose queries may fail *)

\* Intents with a root, no select entries and no aggregation
FailIntents ==
    { it \in RootedIntents : it.select = <<>> /\ "aggregation" \notin DOMAIN it }

InitFail ==
    /\ graph \in Graphs
    /\ intent \in FailIntents
    /\ fails \in 0..MaxFails
    /\ pc = "extract"
    /\ required_paths = {}
    /\ recipes = <<>>
    /\ join_recipes = <<>>
    /\ pre_filters = <<>>
    /\ post_filters = <<>>
    /\ pipeline = <<>>
    /\ unwound = {}
    /\ k = 1
    /\ error = ""

SpecFail == InitFail /\ [][Next]_vars

-----------------------------------------------------------------------------
(* Vocabulary of the properties *)

Returned == pc = "done"

IsStage(j, tag) == j \in DOMAIN pipeline /\ pipeline[j].stage = tag

Lookups == { j \in DOMAIN pipeline : pipeline[j].stage = "$lookup" }
UnwindsOf(path) ==
    { j \in DOMAIN pipeline : /\ pipeline[j].stage = "$unwind"
                              /\ pipeline[j].path = <<"$">> \o path }
Counts == { j \in DOMAIN pipeline : pipeline[j].stage = "$count" }
Matches == { j \in DOMAIN pipeline : pipeline[j].stage = "$match" }
JoinStages == { j \in DOMAIN pipeline : pipeline[j].stage \in {"$lookup", "$unwind"} }

\* path equals base or continues it after a dot
Under(path, base) ==
    \/ path = base
    \/ /\ Len(path) > Len(base)
       /\ SubSeq(path, 1, Len(base)) = base
       /\ path[Len(base) + 1] = "."

\* base is a dotted prefix of path, and shorter
StrictDottedPrefix(base, path) == base # path /\ Under(path, base)

\* array paths named by two or more embedded recipes of the returned list
SharedArrayPaths ==
    { join_recipes[i].array_path :
        i \in { h \in DOMAIN join_recipes :
                  /\ join_recipes[h].kind = "embedded"
                  /\ Truthy(join_recipes[h].array_path)
                  /\ \E g \in DOMAIN join_recipes :
                        /\ g # h
                        /\ join_recipes[g].kind = "embedded"
                        /\ join_recipes[g].array_path = join_recipes[h].array_path } }

-----------------------------------------------------------------------------
(* C1 *)

\* C1: when two or more embedded recipes share an arrayPath, the returned
\* pipeline contains exactly one $unwind stage whose path is that arrayPath.
C1_NoDoubleUnwind ==
    Returned => \A a \in SharedArrayPaths : Cardinality(UnwindsOf(a)) = 1

-----------------------------------------------------------------------------
(* C2 *)

Filters == Get(intent, "filters", <<>>)

\* the filter's path lies in the output of a join of the returned list: under
\* a collection recipe's targetPath, or under the alias or the logical path
\* arrayPath.alias of an embedded recipe that has a lookup
JoinedFilter(f) ==
    \E j \in DOMAIN join_recipes :
        LET r == join_recipes[j]
        IN  \/ r.kind = "collection" /\ Under(f.pathHint, r.target_path)
            \/ /\ r.kind = "embedded"
               /\ r.dst_collection # NoCollection
               /\ \/ Under(f.pathHint, r.alias)
                  \/ Under(f.pathHint, Dotted(r.array_path, r.alias))

LocalFilter(f) == ~JoinedFilter(f)

\* the key under which compile_match stores the filter
KeyOf(f) == RewritePath(f.pathHint, RewriteMap(join_recipes, Len(join_recipes)))

Holds(m, f) == m \in Matches /\ KeyOf(f) \in DictKeys(pipeline[m].match)

\* every local filter sits in a $match before every $lookup, every joined
\* filter in a $match after every $lookup and $unwind
PlacedByKind ==
    \A j \in DOMAIN Filters :
        IF LocalFilter(Filters[j])
        THEN \E m \in Matches : Holds(m, Filters[j]) /\ \A l \in Lookups : m < l
        ELSE \E m \in Matches : Holds(m, Filters[j]) /\ \A l \in JoinStages : l < m

OneLocalOneJoined ==
    /\ Len(Filters) = 2
    /\ \E j \in 1..2 : LocalFilter(Filters[j]) /\ JoinedFilter(Filters[3 - j])

LocalOf == IF LocalFilter(Filters[1]) THEN Filters[1] ELSE Filters[2]
JoinedOf == IF LocalFilter(Filters[1]) THEN Filters[2] ELSE Filters[1]

\* C2 as stated: local filters are matched before every $lookup, joined
\* filters after every $lookup and $unwind, and with one local and one
\* joined filter the first stage is the local $match and the last stage is
\* the joined $match.
C2_FilterPlacement ==
    Returned =>
        /\ PlacedByKind
        /\ OneLocalOneJoined =>
               /\ Holds(1, LocalOf)
               /\ Holds(Len(pipeline), JoinedOf)

\* C2 amended: as C2, but with one local and one joined filter the joined
\* $match is the last stage only when no count is asked for; with
\* aggregation count it is the stage just before the final $count.
C2_FilterPlacementAmended ==
    Returned =>
        /\ PlacedByKind
        /\ OneLocalOneJoined =>
               /\ Holds(1, LocalOf)
               /\ IF Get(intent, "aggregation", "None") = "count"
                  THEN Holds(Len(pipeline) - 1, JoinedOf)
                  ELSE Holds(Len(pipeline), JoinedOf)

C2_Witness ==
    /\ Returned
    /\ OneLocalOneJoined
    /\ Lookups # {}
    /\ Get(intent, "aggregation", "None") = "count"
    /\ IsStage(1, "$match")
    /\ IsStage(Len(pipeline) - 1, "$match")

-----------------------------------------------------------------------------
(* C3 *)

\* C3: every $lookup of a multi-hop chain comes after the $lookup of each of
\* its chain prefixes: the lookup whose `as` is order precedes the lookup
\* whose `as` is order.customer, and that prefix lookup is present.
C3_DependencyOrdering ==
    Returned =>
        /\ \A i \in Lookups : \A j \in Lookups :
               StrictDottedPrefix(pipeline[i].as, pipeline[j].as) => i < j
        /\ \A j \in Lookups :
               \A pre \in Prefixes(pipeline[j].as) \ {pipeline[j].as} :
                   \E i \in Lookups : i < j /\ pipeline[i].as = pre

C3_Witness ==
    /\ Returned
    /\ \E i \in Lookups : \E j \in Lookups :
          /\ i < j
          /\ pipeline[i].as = n_o
          /\ pipeline[j].as = Dotted(n_o, n_c)

-----------------------------------------------------------------------------
(* C4 *)

\* the stages a recipe can put into a pipeline
StagesOf(r) ==
    IF r.kind = "collection" THEN Range(CollectionStages(r, {}))
    ELSE Range(EmbeddedStages(r, {}))

RequiredRecipes ==
    { recipes[j] : j \in { h \in DOMAIN recipes :
                               PathToCheck(recipes[h]) \in required_paths } }

\* C4: no recipe whose resolved path (targetPath, or arrayPath-or-alias) is
\* absent from the required-path set produces a $lookup or $unwind stage:
\* the returned list holds no such recipe, and every join stage of the
\* pipeline is a stage of a recipe whose resolved path is required.
C4_Minimality ==
    Returned =>
        /\ \A j \in DOMAIN join_recipes :
               PathToCheck(join_recipes[j]) \in required_paths
        /\ \A j \in JoinStages :
               \E r \in RequiredRecipes : pipeline[j] \in StagesOf(r)

C4_Witness ==
    /\ Returned
    /\ Lookups # {}
    /\ \E j \in DOMAIN recipes : PathToCheck(recipes[j]) \notin required_paths

-----------------------------------------------------------------------------
(* C5 *)

\* C5: with aggregation count the returned pipeline ends in a $count stage
\* and has exactly one of them; without an aggregation it has none.
C5_CountTerminal ==
    Returned =>
        /\ Get(intent, "aggregation", "None") = "count" =>
               /\ pipeline # <<>>
               /\ Counts = {Len(pipeline)}
        /\ "aggregation" \notin DOMAIN intent => Counts = {}

C5_Witness ==
    /\ Returned
    /\ Get(intent, "aggregation", "None") = "count"
    /\ Len(pipeline) >= 4
    /\ IsStage(Len(pipeline), "$count")

-----------------------------------------------------------------------------
(* C8 *)

\* the MongoDB operator of each op of the Intent model other than eq
OperatorOf ==
    [gt |-> "$gt", gte |-> "$gte", lt |-> "$lt", lte |-> "$lte", in |-> "$in"]

\* what a filter asks for: the value itself for eq, {operator: value} otherwise
Asked(f) ==
    IF Get(f, "op", "eq") = "eq" THEN <<f.value>>
    ELSE <<OperatorOf[f.op], f.value>>

\* stage m is a $match whose entries are those of the filters fs, one each
HoldsExactly(m, fs) ==
    /\ IsStage(m, "$match")
    /\ Len(pipeline[m].match) = Len(fs)
    /\ Range(pipeline[m].match) = { <<fs[j].pathHint, Asked(fs[j])>> : j \in DOMAIN fs }

\* C8: when no join recipe survives resolution, the returned pipeline is one
\* $match stage holding the filters if the Intent has a filter, followed by
\* one $count stage if aggregation is count, and nothing else.
C8_JoinFree ==
    (Returned /\ join_recipes = <<>>) =>
        LET nm == IF Filters # <<>> THEN 1 ELSE 0
            nc == IF Get(intent, "aggregation", "None") = "count" THEN 1 ELSE 0
        IN  /\ Len(pipeline) = nm + nc
            /\ nm = 1 => HoldsExactly(1, Filters)
            /\ nc = 1 => pipeline[Len(pipeline)] = [stage |-> "$count", count |-> "total"]

\* a schema with relationships none of which the Intent needs, one filter
\* and count: the pipeline is [$match, $count]
C8_Witness ==
    /\ Returned
    /\ recipes # <<>>
    /\ join_recipes = <<>>
    /\ Len(Filters) = 1
    /\ Len(pipeline) = 2
    /\ IsStage(1, "$match")
    /\ IsStage(2, "$count")

-----------------------------------------------------------------------------
(* C9 *)

\* the fetch has returned
Fetched == pc \in {"classify", "prematch", "joins", "aggregate", "done"}

\* the chains leaving the root, each a list of relationships of the graph
Chains == PathsFrom(graph, intent.root, <<>>, 1)

\* the place in `recipes` of hop h of chain t: the records come chain by
\* chain, hop by hop
RowOf(t, h) == Len(Flatten(SubSeq(Chains, 1, t - 1))) + h

\* C9: after resolution every collection recipe whose srcCollection is the
\* root has targetPath = alias and lookupLocalField = localField, and every
\* collection recipe at a later hop of a chain has targetPath =
\* parent.targetPath.alias and lookupLocalField = parent.targetPath.localField,
\* the parent being the recipe of the preceding hop of that chain.
C9_TransitiveResolution ==
    Fetched =>
        \A t \in DOMAIN Chains : \A h \in DOMAIN Chains[t] :
            LET r == recipes[RowOf(t, h)]
            IN  IF r.src_collection = intent.root
                THEN /\ r.target_path = r.alias
                     /\ r.lookup_local_field = r.local_field
                ELSE LET parent == recipes[RowOf(t, h - 1)]
                     IN  /\ r.target_path = parent.target_path \o Dot \o r.alias
                         /\ r.lookup_local_field =
                                parent.target_path \o Dot \o r.local_field

-----------------------------------------------------------------------------
(* C10 *)

WellFormed(f) == {"pathHint", "op", "value"} \subseteq DOMAIN f

\* C10 as stated: a pipeline is returned only for an Intent that has a root
\* and whose filters each have pathHint, op and value.
C10_InputRejection ==
    Returned =>
        /\ "root" \in DOMAIN intent
        /\ \A j \in DOMAIN Filters : WellFormed(Filters[j])

-----------------------------------------------------------------------------
(* C7 *)

Extracted == pc # "extract"

\* the prefixes of a dotted path that end at its end or in front of a dot
DottedPrefixes(path) ==
    { SubSeq(path, 1, j) :
        j \in { h \in 1..Len(path) : h = Len(path) \/ path[h + 1] = "." } }

Entries(section) == Get(intent, section, <<>>)

\* the pathHints of the entries of a section
PathHints(section) ==
    { Entries(section)[j].pathHint :
        j \in { h \in DOMAIN Entries(section) : "pathHint" \in DOMAIN Entries(section)[h] } }

\* the `field` of the entries of a section that have no pathHint or an empty one
FieldsInstead(section) ==
    { Entries(section)[j].field :
        j \in { h \in DOMAIN Entries(section) :
                  /\ "field" \in DOMAIN Entries(section)[h]
                  /\ \/ "pathHint" \notin DOMAIN Entries(section)[h]
                     \/ Entries(section)[h].pathHint = <<>> } }

\* C7 as stated: extract_potential_paths returns exactly the dotted prefixes
\* of every path in select, every filter's pathHint and every sort's
\* pathHint, and nothing else; empty or missing paths contribute nothing.
C7_PathExtraction ==
    Extracted =>
        required_paths =
            UNION { DottedPrefixes(path) :
                      path \in Range(Entries("select")) \cup PathHints("filters")
                                \cup PathHints("sort") }

\* C7: extract_potential_paths returns exactly the dotted prefixes of every
\* path in select and of every filter's and sort's pathHint or, where the
\* entry has no pathHint or an empty one, of its `field`; entries with no
\* path at all contribute nothing, and no error is raised.
C7_PathExtractionAmended ==
    /\ pc \in {"extract", "fetch"} => error = ""
    /\ Extracted =>
          required_paths =
              UNION { DottedPrefixes(path) :
                        path \in Range(Entries("select")) \cup PathHints("filters")
                                  \cup PathHints("sort") \cup FieldsInstead("filters")
                                  \cup FieldsInstead("sort") }

\* a three-segment select path, a sort entry with neither key and a filter
\* entry with `field` alone have been read
C7_Witness ==
    /\ Extracted
    /\ Path3(n_o, n_c, n_n) \in Range(Entries("select"))
    /\ \E j \in DOMAIN Entries("sort") :
          {"pathHint", "field"} \cap DOMAIN Entries("sort")[j] = {}
    /\ \E j \in DOMAIN Entries("filters") :
          DOMAIN Entries("filters")[j] = {"field"}
    /\ {n_o, Path2(n_o, n_c), Path3(n_o, n_c, n_n), n_p, Path2(n_p, n_c)}
          \subseteq required_paths

-----------------------------------------------------------------------------
(* C11 *)

\* a session.run of this call raises
QueryFails == fails \in 1..QueriesIssued(graph, intent.root)

\* C11: if a Schema Graph query issued during fetch_join_recipes fails, the
\* compile_pipeline call fails; no pipeline is returned and none is built
\* from the recipes gathered before the failure.
C11_FailFast ==
    /\ (Returned /\ "root" \in DOMAIN intent) => ~QueryFails
    /\ error = "Neo4jError" =>
          /\ pc = "raised"
          /\ join_recipes = <<>>
          /\ pipeline = <<>>

\* an embedded-array query has failed after collection recipes were gathered
C11_Witness ==
    /\ pc = "raised"
    /\ error = "Neo4jError"
    /\ fails > 1
    /\ recipes # <<>>
    /\ join_recipes = <<>>

-----------------------------------------------------------------------------
(* C12 *)

\* C12: every failure inside compilation, of a malformed Intent or of a
\* Schema Graph query, is reported as the one typed compilation error.
C12_TypedErrors == pc = "raised" => error = "QueryCompilationError"

-----------------------------------------------------------------------------
(* C13 *)

\* an Intent as src/models/intent.py accepts it
Valid ==
    /\ "root" \in DOMAIN intent
    /\ \A j \in DOMAIN Filters : WellFormed(Filters[j])

-----------------------------------------------------------------------------
(* C14 *)

KindRecipes(kind) ==
    { join_recipes[j] : j \in { h \in DOMAIN join_recipes : join_recipes[h].kind = kind } }

\* stage j is the $lookup or the $unwind of a collection recipe
CollectionStage(j) ==
    \E r \in KindRecipes("collection") :
        \/ IsStage(j, "$lookup") /\ pipeline[j].as = r.target_path
        \/ IsStage(j, "$unwind") /\ pipeline[j].path = <<"$">> \o r.target_path

\* stage j is the $lookup or an $unwind of an embedded recipe
EmbeddedStage(j) ==
    \E r \in KindRecipes("embedded") :
        \/ IsStage(j, "$lookup") /\ pipeline[j].as = r.alias
        \/ IsStage(j, "$unwind") /\ pipeline[j].path = <<"$">> \o r.array_path
        \/ IsStage(j, "$unwind") /\ pipeline[j].path = <<"$">> \o r.alias

\* C14: every returned pipeline is at most one pre-lookup $match, then the
\* stages of the collection recipes, then the stages of the embedded
\* recipes, then at most one post-lookup $match, then at most one $count;
\* every stage is a $match, $lookup, $unwind or $count.
C14_StageOrder ==
    Returned =>
        /\ \A j \in DOMAIN pipeline :
              pipeline[j].stage \in {"$match", "$lookup", "$unwind", "$count"}
        /\ \E pre, post, cnt \in 0..1 : \E b \in 0..Len(pipeline) :
              LET c == Len(pipeline) - cnt - post
                  d == Len(pipeline) - cnt
              IN  /\ pre <= b /\ b <= c
                  /\ \A j \in 1..pre : IsStage(j, "$match")
                  /\ \A j \in (pre + 1)..b : CollectionStage(j) /\ ~EmbeddedStage(j)
                  /\ \A j \in (b + 1)..c : EmbeddedStage(j) /\ ~CollectionStage(j)
                  /\ \A j \in (c + 1)..d : IsStage(j, "$match")
                  /\ \A j \in (d + 1)..Len(pipeline) : IsStage(j, "$count")

\* a pipeline with all five parts
C14_Witness ==
    /\ Returned
    /\ pre_filters # <<>>
    /\ post_filters # <<>>
    /\ Get(intent, "aggregation", "None") = "count"
    /\ \E i, j \in DOMAIN pipeline : i < j /\ CollectionStage(i) /\ EmbeddedStage(j)
    /\ IsStage(1, "$match")
    /\ IsStage(Len(pipeline) - 1, "$match")
    /\ IsStage(Len(pipeline), "$count")

-----------------------------------------------------------------------------
(* C15 *)

\* the number of dotted segments of a path
Depth(path) == Cardinality({ j \in DOMAIN path : path[j] = "." }) + 1

CollectionLookups == { j \in Lookups : CollectionStage(j) }

\* C15: in every returned pipeline the $lookup stages of collection recipes
\* are sorted by ascending depth of their targetPath, no lookup of a deeper
\* chain preceding one of a shallower chain, and all of them precede every
\* stage of an embedded recipe.
C15_DepthSorted ==
    Returned =>
        /\ \A i, j \in CollectionLookups :
              i < j => Depth(pipeline[i].as) <= Depth(pipeline[j].as)
        /\ \A i \in CollectionLookups : \A j \in DOMAIN pipeline :
              EmbeddedStage(j) => i < j

-----------------------------------------------------------------------------
(* C16 *)

LookupsAs(path) == { j \in Lookups : pipeline[j].as = path }

\* C16: for every collection recipe of the final list exactly one $lookup
\* is emitted, with from = dstCollection, localField = lookupLocalField,
\* foreignField = foreignField and as = targetPath, and the stage right
\* after it is an $unwind on targetPath that preserves null and empty arrays.
C16_CollectionJoin ==
    Returned =>
        \A r \in KindRecipes("collection") :
            /\ Cardinality(LookupsAs(r.target_path)) = 1
            /\ \A j \in LookupsAs(r.target_path) :
                  /\ pipeline[j] = [stage |-> "$lookup", from |-> r.dst_collection,
                                    localField |-> r.lookup_local_field,
                                    foreignField |-> r.foreign_field,
                                    as |-> r.target_path]
                  /\ j + 1 \in DOMAIN pipeline
                  /\ pipeline[j + 1] = [stage |-> "$unwind",
                                        path |-> <<"$">> \o r.target_path,
                                        preserveNullAndEmptyArrays |-> TRUE]

\* a two-hop chain has been emitted: the second lookup reads its key under
\* the output of the first
C16_Witness ==
    /\ Returned
    /\ \E r \in KindRecipes("collection") :
          /\ Depth(r.target_path) = 2
          /\ r.lookup_local_field # r.local_field
          /\ LookupsAs(r.target_path) # {}

-----------------------------------------------------------------------------
(* C17 *)

Preserving(path) == [stage |-> "$unwind", path |-> <<"$">> \o path,
                     preserveNullAndEmptyArrays |-> TRUE]

\* the $lookup stages of the embedded recipe r
EmbeddedLookups(r) ==
    { j \in Lookups :
        pipeline[j] = [stage |-> "$lookup", from |-> r.dst_collection,
                       localField |-> r.array_path \o Dot \o r.local_field,
                       foreignField |-> r.foreign_field, as |-> r.alias] }

\* C17: for every embedded recipe processed, a preserving $unwind on its
\* arrayPath occurs before any $lookup of the recipe; a $lookup with
\* localField = arrayPath.localField and as = alias, immediately followed by
\* a preserving $unwind on alias, is emitted if and only if the recipe has a
\* dstCollection, so a root-level array without a reference yields an
\* unwind and no lookup.
C17_EmbeddedJoin ==
    Returned =>
        \A r \in KindRecipes("embedded") :
            /\ \E u \in DOMAIN pipeline :
                  /\ pipeline[u] = Preserving(r.array_path)
                  /\ \A l \in EmbeddedLookups(r) : u < l
            /\ r.dst_collection # NoCollection =>
                  /\ EmbeddedLookups(r) # {}
                  /\ \A l \in EmbeddedLookups(r) :
                        /\ l + 1 \in DOMAIN pipeline
                        /\ pipeline[l + 1] = Preserving(r.alias)
            /\ r.dst_collection = NoCollection => LookupsAs(r.alias) = {}

\* an array with a reference and a root-level array without one have both
\* been processed
C17_Witness ==
    /\ Returned
    /\ \E r \in KindRecipes("embedded") :
          r.dst_collection # NoCollection /\ EmbeddedLookups(r) # {}
    /\ \E r \in KindRecipes("embedded") :
          /\ r.dst_collection = NoCollection
          /\ UnwindsOf(r.array_path) # {}
          /\ LookupsAs(r.alias) = {}

-----------------------------------------------------------------------------
(* C18 *)

Classified == pc \in {"prematch", "joins", "aggregate", "done"}

\* the paths the claim compares a pathHint with
JoinPaths ==
    { r.target_path : r \in KindRecipes("collection") }
    \cup { r.alias : r \in KindRecipes("embedded") }
    \cup { r.array_path \o Dot \o r.alias : r \in KindRecipes("embedded") }

\* C18 as stated: a filter is classified post-lookup if and only if its
\* pathHint equals, or is a strict dotted prefix of, a collection recipe's
\* targetPath or an embedded recipe's alias or arrayPath.alias; every other
\* filter is classified pre-lookup.
C18_Classification ==
    Classified =>
        /\ post_filters =
              SelectSeq(Filters, LAMBDA f :
                  \E x \in JoinPaths : f.pathHint = x \/ StrictDottedPrefix(f.pathHint, x))
        /\ pre_filters =
              SelectSeq(Filters, LAMBDA f :
                  ~\E x \in JoinPaths : f.pathHint = x \/ StrictDottedPrefix(f.pathHint, x))

\* C18: a filter is classified post-lookup if and only if its pathHint
\* equals, or has as a strict dotted prefix, a collection recipe's targetPath
\* or the alias or arrayPath.alias of an embedded recipe that has a
\* dstCollection; every other filter is classified pre-lookup.
C18_ClassificationAmended ==
    Classified =>
        /\ post_filters = SelectSeq(Filters, JoinedFilter)
        /\ pre_filters = SelectSeq(Filters, LocalFilter)

\* a filter under the output of a two-hop chain has been classified
\* post-lookup, a filter under a root-level array without reference pre-lookup
C18_Witness ==
    /\ Classified
    /\ \E j \in DOMAIN post_filters : \E r \in KindRecipes("collection") :
          StrictDottedPrefix(r.target_path, post_filters[j].pathHint)
    /\ \E j \in DOMAIN pre_filters : \E r \in KindRecipes("embedded") :
          /\ r.dst_collection = NoCollection
          /\ StrictDottedPrefix(r.alias, pre_filters[j].pathHint)

-----------------------------------------------------------------------------
(* C19 *)

Logical(r) == r.array_path \o Dot \o r.alias

\* the path with the logical prefix arrayPath.alias replaced by alias
Physical(path, r) == r.alias \o SubSeq(path, Len(Logical(r)) + 1, Len(path))

\* the embedded recipes under whose logical path the filter lies
RecipesOver(f) ==
    { r \in KindRecipes("embedded") : Under(f.pathHint, Logical(r)) }

\* the classification predicate evaluated on a path
PostLookupPath(path) ==
    \E r \in KindRecipes("collection") \cup
              { e \in KindRecipes("embedded") : e.dst_collection # NoCollection } :
        \/ r.kind = "collection" /\ Under(path, r.target_path)
        \/ r.kind = "embedded" /\ (Under(path, r.alias) \/ Under(path, Logical(r)))

\* C19: for every filter whose pathHint equals or lies under the logical
\* path arrayPath.alias of an embedded recipe, the key written into the
\* $match stage is the pathHint with that prefix replaced by alias alone,
\* and the filter is classified as the classification predicate classifies
\* the rewritten path.
C19_FilterRewrite ==
    Returned =>
        \A j \in DOMAIN Filters : \A r \in RecipesOver(Filters[j]) :
            /\ \E m \in Matches :
                  /\ Physical(Filters[j].pathHint, r) \in DictKeys(pipeline[m].match)
                  /\ Filters[j].pathHint \notin DictKeys(pipeline[m].match)
            /\ Filters[j] \in Range(post_filters)
                  <=> PostLookupPath(Physical(Filters[j].pathHint, r))

\* the filter on i.d.n has been written under d.n, after the lookup of d
C19_Witness ==
    /\ Returned
    /\ \E j \in DOMAIN Filters :
          /\ Filters[j].pathHint = Path3(n_i, n_d, n_n)
          /\ RecipesOver(Filters[j]) # {}
    /\ IsStage(Len(pipeline), "$match")
    /\ Path2(n_d, n_n) \in DictKeys(pipeline[Len(pipeline)].match)
    /\ LookupsAs(n_d) # {}

-----------------------------------------------------------------------------
(* C20 *)

\* the key (targetPath or alias, arrayPath)
KeyOfRecipe(r) ==
    <<IF r.target_path # <<>> THEN r.target_path ELSE r.alias, r.array_path>>

\* targetPath for collection kind, arrayPath or alias for embedded kind
EffectivePath(r) ==
    IF r.kind = "collection" THEN r.target_path
    ELSE IF r.array_path # <<>> THEN r.array_path ELSE r.alias

\* the places of the first occurrence of each key
FirstOccurrences(rs) ==
    { j \in DOMAIN rs : \A i \in 1..(j - 1) : KeyOfRecipe(rs[i]) # KeyOfRecipe(rs[j]) }

\* deduplicate by key keeping the first occurrence, then discard the recipes
\* whose effective path is not required
DedupThenDiscard(rs, required) ==
    Pick(rs, { j \in FirstOccurrences(rs) : EffectivePath(rs[j]) \in required }, 1)

\* C20: the list returned by fetch_join_recipes is the discovered list
\* deduplicated by key (targetPath or alias, arrayPath), first occurrence
\* kept, with every recipe whose effective path is not required discarded
\* afterwards; it holds at most one recipe per key.
C20_DedupThenDiscard ==
    Fetched =>
        /\ join_recipes = DedupThenDiscard(recipes, required_paths)
        /\ \A i, j \in DOMAIN join_recipes :
              KeyOfRecipe(join_recipes[i]) = KeyOfRecipe(join_recipes[j]) => i = j

\* a discovered list with a repeated key and with a recipe that is not
\* required, of which some but not all recipes are returned
C20_Witness ==
    /\ Fetched
    /\ FirstOccurrences(recipes) # DOMAIN recipes
    /\ \E j \in FirstOccurrences(recipes) : EffectivePath(recipes[j]) \notin required_paths
    /\ join_recipes # <<>>
    /\ \E r \in KindRecipes("embedded") : TRUE
    /\ \E r \in KindRecipes("collection") : TRUE

-----------------------------------------------------------------------------
(* C21 *)

\* the names of the embedded arrays the schema declares on a collection
LocalArrays(col) ==
    { graph[j].path :
        j \in { h \in DOMAIN graph : /\ graph[h].src = col
                                      /\ graph[h].type \in {"eref", "bare"} } }

\* C21: the arrayPath of every embedded recipe discovered is the local array
\* name when the owning collection is the root, also when the root is the
\* destination of a reference reachable from it, and
\* parentRecipe.targetPath.localArrayName when the owning collection was
\* reached through a collection join.
C21_EmbeddedArrayPath ==
    Fetched =>
        \A j \in DOMAIN recipes :
            LET r == recipes[j]
            IN  r.kind = "embedded" =>
                  IF r.src_collection = intent.root
                  THEN r.array_path \in LocalArrays(intent.root)
                  ELSE \E h \in DOMAIN recipes : \E a \in LocalArrays(r.src_collection) :
                          /\ recipes[h].kind = "collection"
                          /\ recipes[h].dst_collection = r.src_collection
                          /\ r.array_path = recipes[h].target_path \o Dot \o a

-----------------------------------------------------------------------------
(* C22 *)

\* the last filter of fs whose final path is key
LastOn(fs, key) ==
    fs[CHOOSE j \in DOMAIN fs :
          /\ KeyOf(fs[j]) = key
          /\ \A h \in DOMAIN fs : h > j => KeyOf(fs[h]) # key]

\* the $match object m has one entry per final path of the filters fs, each
\* holding the condition of the last filter on that path
Overwritten(m, fs) ==
    /\ \A i, j \in DOMAIN m : m[i][1] = m[j][1] => i = j
    /\ DictKeys(m) = { KeyOf(fs[j]) : j \in DOMAIN fs }
    /\ \A i \in DOMAIN m : m[i][2] = Asked(LastOn(fs, m[i][1]))

PostMatchAt ==
    Len(pipeline) - (IF Get(intent, "aggregation", "None") = "count" THEN 1 ELSE 0)

\* C22: the $match object compile_match builds from a filter list has
\* exactly one entry per distinct final path, and where several filters
\* share a final path the entry holds the condition of the last of them.
C22_MatchOverwrite ==
    Returned =>
        /\ pre_filters # <<>> =>
              IsStage(1, "$match") /\ Overwritten(pipeline[1].match, pre_filters)
        /\ post_filters # <<>> =>
              /\ IsStage(PostMatchAt, "$match")
              /\ Overwritten(pipeline[PostMatchAt].match, post_filters)

\* two post-lookup filters with one final path have left one entry, with the
\* value of the second
C22_Witness ==
    /\ Returned
    /\ Len(post_filters) = 2
    /\ KeyOf(post_filters[1]) = KeyOf(post_filters[2])
    /\ post_filters[1].value # post_filters[2].value
    /\ IsStage(PostMatchAt, "$match")
    /\ pipeline[PostMatchAt].match =
          <<<<KeyOf(post_filters[2]), <<post_filters[2].value>>>>>>

-----------------------------------------------------------------------------
(* C23 *)

\* the graph has a reference cycle that does not pass through the root
CycleOffRoot ==
    \E i, j \in DOMAIN graph :
        /\ graph[i].src # intent.root /\ graph[i].dst # intent.root
        /\ graph[j].src = graph[i].dst /\ graph[j].dst = graph[i].src

\* C23: on every schema graph, cyclic ones included, resolve_paths
\* terminates on every preliminary recipe, the list being the edges of the
\* root-originating paths in path order; afterwards every collection recipe
\* has a non-empty targetPath.
C23_ResolutionTerminates ==
    /\ error # "RecursionError"
    /\ Fetched =>
          \A j \in DOMAIN recipes :
              recipes[j].kind = "collection" => recipes[j].target_path # <<>>

\* recipes of a graph with a cycle off the root have been resolved, one of
\* them at the third hop
C23_Witness ==
    /\ Fetched
    /\ CycleOffRoot
    /\ \E j \in DOMAIN recipes : Depth(recipes[j].target_path) = 3

-----------------------------------------------------------------------------
(* C24 *)

\* the dotted alias sequence of a chain of relationships of the graph
AliasPath(chain) == Join([j \in DOMAIN chain |-> graph[chain[j]].alias])

\* the paths the schema graph gives a meaning to: the alias sequences of the
\* reference chains leaving the root, and of every embedded array its path,
\* the alias of its reference and the two joined by a dot
SchemaPaths ==
    { AliasPath(Chains[t]) : t \in DOMAIN Chains }
    \cup UNION { {graph[j].path} \cup
                 (IF graph[j].type = "eref"
                  THEN {graph[j].alias, Dotted(graph[j].path, graph[j].alias)}
                  ELSE {})
                 : j \in { h \in DOMAIN graph : graph[h].type \in {"eref", "bare"} } }

\* no part of the filter's path is a path of the schema graph
Unresolvable(f) ==
    /\ "pathHint" \in DOMAIN f
    /\ DottedPrefixes(f.pathHint) \cap SchemaPaths = {}

\* the path a join stage works on
StagePath(j) ==
    IF pipeline[j].stage = "$lookup" THEN pipeline[j].as ELSE Tail(pipeline[j].path)

-----------------------------------------------------------------------------
(* C25 *)

\* C25: for every chain of reference edges leaving the root whose dotted
\* alias sequence is a required path, the final recipe list holds a
\* collection recipe with that targetPath and the returned pipeline holds a
\* $lookup with `as` equal to it, also when the chain passes through a
\* collection reached by more than one chain or through the root again.
C25_JoinComplete ==
    Fetched =>
        \A t \in DOMAIN Chains :
            AliasPath(Chains[t]) \in required_paths =>
                /\ \E j \in DOMAIN join_recipes :
                      /\ join_recipes[j].kind = "collection"
                      /\ join_recipes[j].target_path = AliasPath(Chains[t])
                /\ Returned => LookupsAs(AliasPath(Chains[t])) # {}

-----------------------------------------------------------------------------
(* C26 *)

\* C26: in every returned pipeline no two $unwind stages have the same path
\* and no two $lookup stages have the same `as`, collection targetPaths,
\* embedded arrayPaths and embedded aliases taken together.
C26_NoRepeatedUnwind ==
    Returned =>
        \A i, j \in JoinStages :
            (i # j /\ pipeline[i].stage = pipeline[j].stage) =>
                StagePath(i) # StagePath(j)

-----------------------------------------------------------------------------
(* C27 *)

\* C27: every filter classified as pre-lookup has its condition in the
\* pre-lookup $match, the first stage, under its original pathHint; the
\* embedded-path rewrite of compile_match leaves its path alone.
C27_PreFilterKeepsPath ==
    Returned =>
        \A i \in DOMAIN pre_filters :
            /\ IsStage(1, "$match")
            /\ pre_filters[i].pathHint \in DictKeys(pipeline[1].match)

-----------------------------------------------------------------------------
(* C28 *)

\* C28: for every operator of the Intent model other than eq, the condition
\* compile_match emits for a filter differs from the plain-equality
\* condition it emits for eq with the same path and value, and op ne yields
\* a $ne condition.
C28_OperatorsHonoured ==
    Returned =>
        \A i \in DOMAIN Filters : \A m \in Matches :
            \A e \in Range(pipeline[m].match) :
                (e[1] = KeyOf(Filters[i]) /\ Filters[i].op # "eq") =>
                    /\ e[2] # Condition("eq", Filters[i].value)
                    /\ Filters[i].op = "ne" => e[2] = <<"$ne", Filters[i].value>>

-----------------------------------------------------------------------------
(* C29 *)

\* some select, filter or sort path of the Intent equals or extends `path`:
\* the required paths are the dotted prefixes of those paths
Referenced(path) == path \in required_paths

\* C29: for every $lookup of a returned pipeline the Intent references the
\* joined data; some path of the Intent equals or extends the `as` of the
\* stage (a collection recipe's targetPath, an embedded recipe's alias) or
\* the arrayPath.alias of the embedded recipe the stage was emitted for.
C29_LookupAskedFor ==
    Returned =>
        \A j \in Lookups :
            \/ Referenced(pipeline[j].as)
            \/ \E h \in DOMAIN join_recipes :
                  /\ join_recipes[h].kind = "embedded"
                  /\ join_recipes[h].alias = pipeline[j].as
                  /\ Referenced(Logical(join_recipes[h]))

-----------------------------------------------------------------------------
(* C30 *)

\* the sort lists with the entries of srt, each in either direction
Redirected(srt) ==
    { t \in [DOMAIN srt -> [pathHint : { srt[j].pathHint : j \in DOMAIN srt },
                            dir : {"asc", "desc"}]] :
        \A j \in DOMAIN srt : t[j].pathHint = srt[j].pathHint }

\* the Intents that differ from `it` in limit and sort directions at most,
\* and the one that names the sort paths in select instead
Variants(it) ==
    { [it EXCEPT !.limit = lim, !.sort = srt] :
        lim \in Limits, srt \in Redirected(it.sort) }
    \cup { [it EXCEPT !.sort = <<>>,
                      !.select = it.select
                                 \o [j \in DOMAIN it.sort |-> it.sort[j].pathHint]] }

\* C30: Intents that are identical except for `limit` and the `dir` of their
\* sort entries compile against the same schema graph to the same stage
\* sequence; a sort entry acts only through its pathHint entering the
\* required paths, as a select entry of that path would, and no stage of the
\* pipeline bounds or orders the result.
C30_LimitAndDirInert ==
    Returned =>
        /\ \A v \in Variants(intent) :
              compile_pipeline(graph, v) = [ok |-> TRUE, pipeline |-> pipeline]
        /\ \A j \in DOMAIN pipeline :
              pipeline[j].stage \in {"$match", "$lookup", "$unwind", "$count"}

\* a pipeline whose joins only the sort entries ask for, one of them
\* descending, was returned for an Intent with limit 1
C30_Witness ==
    /\ Returned
    /\ intent.limit = 1
    /\ intent.filters = <<>>
    /\ Len(intent.sort) = 2
    /\ \E j \in DOMAIN intent.sort : intent.sort[j].dir = "desc"
    /\ Cardinality(Lookups) >= 2

====
